---------------------------- MODULE Spec2Model ----------------------------
(***************************************************************************)
(* A model of ipc-chan: a typed, synchronous request/acknowledge channel   *)
(* (Source / Sink over a REQ / REP socket pair, src/src/lib.rs) and its    *)
(* TOML configuration file handling (src/src/config.rs).                   *)
(*                                                                         *)
(* Text (wire frames, file contents) is a sequence of one-character        *)
(* strings.  The character "#" stands for a byte that is not valid UTF-8.  *)
(***************************************************************************)
EXTENDS Naturals, Sequences, FiniteSets

(***************************************************************************)
(* Bounds of the model.                                                    *)
(***************************************************************************)
\* How many send calls each Source makes.
MaxSends == 2
\* How long the strings of the payloads are that the codec is run on.
MaxStrLen == 2

(***************************************************************************)
(* The JSON codec used for every frame (serde_json::to_string /            *)
(* serde_json::from_str), for the two payload types the repository uses:   *)
(* String and the tuple struct Foo(String, usize).                         *)
(***************************************************************************)
QUOTE == "\""
BSLASH == "\\"
BADBYTE == "#"

DigitChars == <<"0", "1", "2", "3", "4", "5", "6", "7", "8", "9">>

Types == {"String", "Foo"}

\* A payload value: a String, or a Foo(String, usize) (n is 0 for a String).
Str(s) == [t |-> "String", s |-> s, n |-> 0]
Foo(s, n) == [t |-> "Foo", s |-> s, n |-> n]

\* An encoder that escapes nothing.
JsonEscapeNone(s) == s

\* serde_json's string escaping: a quote and a backslash get a backslash.
RECURSIVE JsonEscape(_)
JsonEscape(s) ==
    IF s = <<>> THEN <<>>
    ELSE (IF Head(s) \in {QUOTE, BSLASH} THEN <<BSLASH, Head(s)>> ELSE <<Head(s)>>)
         \o JsonEscape(Tail(s))

JsonString(s) == <<QUOTE>> \o JsonEscape(s) \o <<QUOTE>>

RECURSIVE ToDigits(_)
ToDigits(n) ==
    IF n < 10 THEN <<DigitChars[n + 1]>>
    ELSE ToDigits(n \div 10) \o <<DigitChars[(n % 10) + 1]>>

\* serde_json::to_string(value)
to_string(v) ==
    IF v.t = "String" THEN JsonString(v.s)
    ELSE <<"[">> \o JsonString(v.s) \o <<",">> \o ToDigits(v.n) \o <<"]">>

\* The position of the first character at or after i that is not whitespace.
RECURSIVE SkipWs(_, _)
SkipWs(t, i) ==
    IF i <= Len(t) /\ t[i] = " " THEN SkipWs(t, i + 1) ELSE i

ParseFail == [ok |-> FALSE, val |-> <<>>, next |-> 0]

\* The body of a JSON string from position i (after the opening quote), with
\* acc the characters read so far: up to the closing quote.
RECURSIVE ParseStringBody(_, _, _)
ParseStringBody(t, i, acc) ==
    IF i > Len(t) THEN ParseFail
    ELSE IF t[i] = QUOTE THEN [ok |-> TRUE, val |-> acc, next |-> i + 1]
    ELSE IF t[i] = BSLASH THEN
        IF i + 1 <= Len(t) /\ t[i + 1] \in {QUOTE, BSLASH, "/"}
        THEN ParseStringBody(t, i + 2, Append(acc, t[i + 1]))
        ELSE ParseFail
    ELSE ParseStringBody(t, i + 1, Append(acc, t[i]))

ParseString(t, i) ==
    IF i <= Len(t) /\ t[i] = QUOTE THEN ParseStringBody(t, i + 1, <<>>)
    ELSE ParseFail

DigitValue(c) == (CHOOSE d \in 1..10 : DigitChars[d] = c) - 1

IsDigit(c) == \E d \in 1..10 : DigitChars[d] = c

RECURSIVE ParseDigits(_, _, _)
ParseDigits(t, i, acc) ==
    IF i <= Len(t) /\ IsDigit(t[i])
    THEN ParseDigits(t, i + 1, acc * 10 + DigitValue(t[i]))
    ELSE [ok |-> TRUE, val |-> acc, next |-> i]

\* An unsigned JSON number: digits, with no leading zero before another digit.
ParseNat(t, i) ==
    IF ~(i <= Len(t) /\ IsDigit(t[i])) THEN ParseFail
    ELSE IF t[i] = "0" /\ i + 1 <= Len(t) /\ IsDigit(t[i + 1]) THEN ParseFail
    ELSE ParseDigits(t, i, 0)

JsonErr == [ok |-> FALSE, err |-> "JsonError", val |-> Str(<<>>)]

\* serde_json::from_str::<String>(text)
FromStrString(t) ==
    LET r == ParseString(t, SkipWs(t, 1))
    IN  IF r.ok /\ SkipWs(t, r.next) = Len(t) + 1
        THEN [ok |-> TRUE, err |-> "none", val |-> Str(r.val)]
        ELSE JsonErr

\* serde_json::from_str::<Foo>(text): the array [string, number].
FromStrFoo(t) ==
    LET i0 == SkipWs(t, 1)
        open == i0 <= Len(t) /\ t[i0] = "["
        r1 == IF open THEN ParseString(t, SkipWs(t, i0 + 1)) ELSE ParseFail
        i1 == IF r1.ok THEN SkipWs(t, r1.next) ELSE 0
        comma == r1.ok /\ i1 <= Len(t) /\ t[i1] = ","
        r2 == IF comma THEN ParseNat(t, SkipWs(t, i1 + 1)) ELSE ParseFail
        i2 == IF r2.ok THEN SkipWs(t, r2.next) ELSE 0
        close == r2.ok /\ i2 <= Len(t) /\ t[i2] = "]"
    IN  IF close /\ SkipWs(t, i2 + 1) = Len(t) + 1
        THEN [ok |-> TRUE, err |-> "none", val |-> Foo(r1.val, r2.val)]
        ELSE JsonErr

\* serde_json::from_str::<V>(text)
from_str(V, t) == IF V = "String" THEN FromStrString(t) ELSE FromStrFoo(t)

\* Payloads to run the codec on: the strings up to MaxStrLen over characters
\* that matter to the JSON syntax, alone and in a Foo.
PayloadChars == {"a", "K", QUOTE, BSLASH, ",", "]", " "}

RECURSIVE StringsUpTo(_)
StringsUpTo(n) ==
    IF n = 0 THEN {<<>>}
    ELSE LET S == StringsUpTo(n - 1)
         IN  S \cup {Append(s, c) : s \in S, c \in PayloadChars}

Payloads ==
    {Str(s) : s \in StringsUpTo(MaxStrLen)}
    \cup {Foo(s, n) : s \in StringsUpTo(MaxStrLen), n \in {0, 7, 42, 10001}}


(***************************************************************************)
(* The channel: two Sources (REQ sockets) connected to one Sink (REP       *)
(* socket).                                                                *)
(***************************************************************************)
Sources == {"s0", "s1"}

\* The values the Sources send.
Values == {Str(<<BSLASH, BSLASH>>), Foo(<<"a", QUOTE>>, 42)}

\* const ACK: &str = "K"
ACK == <<"K">>

\* A socket type that imposes no receive/send alternation.
SinkSocketTypeRouter == "ROUTER"

\* The socket types the endpoints are created with.
SourceSocketType == "REQ"
SinkSocketType == "REP"

VARIABLES
    debugAssertions, \* the build: whether debug_assert! is compiled in
    srcPc,           \* per Source: "unborn", "idle", "inSend" (blocked in send), "panicked"
    reqState,        \* per Source: its REQ socket, "ready" or "awaiting" (a reply)
    outbox,          \* per Source: the request frames sent and not yet taken by the Sink
    inbox,           \* per Source: the reply frames sent to it and not yet taken
    srcResult,       \* per Source: what its last send call returned
    sinkUp,          \* whether the Sink is constructed (bound)
    repState,        \* the REP socket: "recv" (awaits a request) or "reply" (owes a reply)
    sinkResult,      \* what the Sink's last recv call returned
    sent,            \* history, per Source: the values whose request it transmitted
    received,        \* history: the values recv returned, in order, with their origin
    consumed,        \* history: how many request frames the Sink's socket took
    replied,         \* history: how many reply frames the Sink's socket sent
    lastAck,         \* history, per Source: the last reply it took (and the request it answers)
    taken,           \* history, per Source: how many replies it took
    efsm             \* history: sockets that refused an operation out of turn

chanVars == <<debugAssertions, srcPc, reqState, outbox, inbox, srcResult, sinkUp,
              repState, sinkResult, sent, received, consumed, replied, lastAck, taken,
              efsm>>

\* The state of the configuration calls (used further down).
VARIABLES
    dirs,     \* the directories that exist (locations)
    files,    \* the files that exist: location -> [text, locked]
    cwd,      \* std::env::current_dir()
    home,     \* dirs::home_dir()
    cfgOps,   \* how many Config calls were made
    cfgLast,  \* the last Config call: its arguments, what it returned, and
              \* (write_toml) what the target held before
    find      \* a find_in_ancestor_or_home_dir call taken step by step: where
              \* it is (pc), its argument (path), its local buf, what it
              \* returned (ret), and (history) the candidates it tested (seen)

cfgVars == <<dirs, files, cwd, home, cfgOps, cfgLast, find>>

vars == <<chanVars, cfgVars>>

\* A byte sequence that recv_string accepts as UTF-8.
IsUtf8(frame) == \A i \in 1..Len(frame) : frame[i] # BADBYTE

\* imp::send's frame: the JSON encoding of the value.
imp_send(v) == to_string(v)

\* The reply frames a peer other than this crate's Sink may send.
ReplyFrames ==
    {to_string(Str(ACK)), to_string(Str(<<"X">>)), to_string(Str(<<>>)),
     <<" ", QUOTE, "K", QUOTE, " ">>, <<"K">>, to_string(Foo(<<"K">>, 0)),
     <<QUOTE, "K", BADBYTE, QUOTE>>}

\* Every frame that occurs on the wire, and what each decodes to (from_str,
\* tabulated once).
WireFrames == {to_string(v) : v \in Values \cup {Str(ACK)}} \cup ReplyFrames
Decoded == [V \in Types |-> [f \in WireFrames |-> from_str(V, f)]]

\* imp::recv::<V> on a frame taken from the socket.
imp_recv(V, frame) ==
    IF IsUtf8(frame) THEN Decoded[V][frame]
    ELSE [ok |-> FALSE, err |-> "NotUtf8Error", val |-> Str(<<>>)]

\* What Source::send returns once its reply frame has arrived.
SendOutcome(reply, debug) ==
    LET r == imp_recv("String", reply)
    IN  IF ~r.ok THEN r.err
        ELSE IF debug /\ r.val.s # ACK THEN "panic"
        ELSE "Ok"

NoReply == [frame |-> <<>>, from |-> "none", n |-> 0]

NoResult == [status |-> "none", val |-> Str(<<>>), from |-> "none", n |-> 0]

ChanInit ==
    /\ debugAssertions \in BOOLEAN
    /\ srcPc = [s \in Sources |-> "unborn"]
    /\ reqState = [s \in Sources |-> "ready"]
    /\ outbox = [s \in Sources |-> <<>>]
    /\ inbox = [s \in Sources |-> <<>>]
    /\ srcResult = [s \in Sources |-> "none"]
    /\ sinkUp = FALSE
    /\ repState = "recv"
    /\ sinkResult = NoResult
    /\ sent = [s \in Sources |-> <<>>]
    /\ received = <<>>
    /\ consumed = 0
    /\ replied = 0
    /\ lastAck = [s \in Sources |-> NoReply]
    /\ taken = [s \in Sources |-> 0]
    /\ efsm = {}

\* Source::from_config: a REQ socket, connected (the connection itself is
\* made by the transport in the background, whether or not the Sink is bound).
SourceNew(s) ==
    /\ srcPc[s] = "unborn"
    /\ srcPc' = [srcPc EXCEPT ![s] = "idle"]
    /\ UNCHANGED <<debugAssertions, reqState, outbox, inbox, srcResult, sinkUp, repState,
                   sinkResult, sent, received, consumed, replied, lastAck, taken, efsm, cfgVars>>

\* Sink::from_config: a REP socket, bound.
SinkNew ==
    /\ ~sinkUp
    /\ sinkUp' = TRUE
    /\ UNCHANGED <<debugAssertions, srcPc, reqState, outbox, inbox, srcResult, repState,
                   sinkResult, sent, received, consumed, replied, lastAck, taken, efsm, cfgVars>>

\* Whether the Source's socket accepts a send now: a REQ socket does only
\* when it is not awaiting a reply.
ReqMaySend(s) == SourceSocketType = "REQ" => reqState[s] = "ready"

\* A send whose request is lost when no Sink is bound yet.
SourceSendDropUnbound(s, v) ==
    /\ srcPc[s] = "idle"
    /\ Len(sent[s]) < MaxSends
    /\ IF ReqMaySend(s)
       THEN /\ outbox' = IF sinkUp
                         THEN [outbox EXCEPT ![s] =
                                 Append(@, [frame |-> imp_send(v), from |-> s,
                                            n |-> Len(sent[s]) + 1])]
                         ELSE outbox
            /\ reqState' = [reqState EXCEPT ![s] = "awaiting"]
            /\ sent' = [sent EXCEPT ![s] = Append(@, v)]
            /\ srcPc' = [srcPc EXCEPT ![s] = "inSend"]
            /\ UNCHANGED <<srcResult, efsm>>
       ELSE /\ srcResult' = [srcResult EXCEPT ![s] = "ZmqError"]
            /\ efsm' = efsm \cup {s}
            /\ UNCHANGED <<outbox, reqState, sent, srcPc>>
    /\ UNCHANGED <<debugAssertions, inbox, sinkUp, repState, sinkResult, received,
                   consumed, replied, lastAck, taken, cfgVars>>

\* Source::send, up to its blocking receive: encode the value and transmit
\* it as one request frame.  A socket that refuses the send (EFSM) makes
\* the call return the transport error at once.
SourceSend(s, v) ==
    /\ srcPc[s] = "idle"
    /\ Len(sent[s]) < MaxSends
    /\ IF ReqMaySend(s)
       THEN /\ outbox' = [outbox EXCEPT ![s] =
                   Append(@, [frame |-> imp_send(v), from |-> s, n |-> Len(sent[s]) + 1])]
            /\ reqState' = [reqState EXCEPT ![s] = "awaiting"]
            /\ sent' = [sent EXCEPT ![s] = Append(@, v)]
            /\ srcPc' = [srcPc EXCEPT ![s] = "inSend"]
            /\ UNCHANGED <<srcResult, efsm>>
       ELSE /\ srcResult' = [srcResult EXCEPT ![s] = "ZmqError"]
            /\ efsm' = efsm \cup {s}
            /\ UNCHANGED <<outbox, reqState, sent, srcPc>>
    /\ UNCHANGED <<debugAssertions, inbox, sinkUp, repState, sinkResult, received,
                   consumed, replied, lastAck, taken, cfgVars>>

\* Source::send returning without having taken a reply.
SourceReturnNoWait(s) ==
    /\ srcPc[s] = "inSend"
    /\ srcPc' = [srcPc EXCEPT ![s] = "idle"]
    /\ srcResult' = [srcResult EXCEPT ![s] = "Ok"]
    /\ UNCHANGED <<debugAssertions, reqState, outbox, inbox, sinkUp, repState, sinkResult,
                   sent, received, consumed, replied, lastAck, taken, efsm, cfgVars>>

\* Source::send, from its blocking receive on: take the reply frame, decode
\* it as a String, check it against ACK (debug builds), return.
SourceReturn(s) ==
    /\ srcPc[s] = "inSend"
    /\ inbox[s] # <<>>
    /\ LET reply == Head(inbox[s])
           out == SendOutcome(reply.frame, debugAssertions)
       IN  /\ inbox' = [inbox EXCEPT ![s] = Tail(@)]
           /\ reqState' = [reqState EXCEPT ![s] = "ready"]
           /\ lastAck' = [lastAck EXCEPT ![s] = reply]
           /\ taken' = [taken EXCEPT ![s] = @ + 1]
           /\ srcResult' = [srcResult EXCEPT ![s] = out]
           /\ srcPc' = [srcPc EXCEPT ![s] = IF out = "panic" THEN "panicked" ELSE "idle"]
    /\ UNCHANGED <<debugAssertions, outbox, sinkUp, repState, sinkResult, sent, received,
                   consumed, replied, efsm, cfgVars>>

\* Whether the Sink's socket accepts a receive now: a REP socket does only
\* when it owes no reply.
RepMayRecv == SinkSocketType = "REP" => repState = "recv"

\* A Sink::recv that replies ACK whether or not the request decoded.
SinkRecvAckAlways(V, s) ==
    /\ sinkUp
    /\ RepMayRecv
    /\ outbox[s] # <<>>
    /\ LET req == Head(outbox[s])
           r == imp_recv(V, req.frame)
       IN  /\ outbox' = [outbox EXCEPT ![s] = Tail(@)]
           /\ consumed' = consumed + 1
           /\ inbox' = [inbox EXCEPT ![s] =
                  Append(@, [frame |-> imp_send(Str(ACK)), from |-> req.from, n |-> req.n])]
           /\ replied' = replied + 1
           /\ repState' = "recv"
           /\ received' = IF r.ok
                          THEN Append(received, [from |-> s, n |-> req.n, val |-> r.val])
                          ELSE received
           /\ sinkResult' = [status |-> IF r.ok THEN "Ok" ELSE r.err, val |-> r.val,
                             from |-> s, n |-> req.n]
    /\ UNCHANGED <<debugAssertions, srcPc, reqState, srcResult, sinkUp, sent, lastAck,
                   taken, efsm, cfgVars>>

\* A Sink::recv that returns the decoded value and sends no reply.
SinkRecvNoAck(V, s) ==
    /\ sinkUp
    /\ RepMayRecv
    /\ outbox[s] # <<>>
    /\ LET req == Head(outbox[s])
           r == imp_recv(V, req.frame)
       IN  /\ outbox' = [outbox EXCEPT ![s] = Tail(@)]
           /\ consumed' = consumed + 1
           /\ repState' = "reply"
           /\ received' = IF r.ok
                          THEN Append(received, [from |-> s, n |-> req.n, val |-> r.val])
                          ELSE received
           /\ sinkResult' = [status |-> IF r.ok THEN "Ok" ELSE r.err, val |-> r.val,
                             from |-> s, n |-> req.n]
    /\ UNCHANGED <<debugAssertions, srcPc, reqState, srcResult, sinkUp, sent, lastAck,
                   taken, efsm, inbox, replied, cfgVars>>

\* Sink::recv::<V> taking the request of Source s: decode it as V; on
\* success transmit ACK as the reply (to the requester) and return the
\* value; on failure return the error, with no reply sent.
SinkRecv(V, s) ==
    /\ sinkUp
    /\ RepMayRecv
    /\ outbox[s] # <<>>
    /\ LET req == Head(outbox[s])
           r == imp_recv(V, req.frame)
       IN  /\ outbox' = [outbox EXCEPT ![s] = Tail(@)]
           /\ consumed' = consumed + 1
           /\ IF r.ok
              THEN /\ inbox' = [inbox EXCEPT ![s] =
                          Append(@, [frame |-> imp_send(Str(ACK)), from |-> req.from, n |-> req.n])]
                   /\ replied' = replied + 1
                   /\ repState' = "recv"
                   /\ received' = Append(received, [from |-> s, n |-> req.n, val |-> r.val])
                   /\ sinkResult' = [status |-> "Ok", val |-> r.val, from |-> s, n |-> req.n]
              ELSE /\ repState' = "reply"
                   /\ sinkResult' = [status |-> r.err, val |-> Str(<<>>), from |-> s,
                                     n |-> req.n]
                   /\ UNCHANGED <<inbox, replied, received>>
    /\ UNCHANGED <<debugAssertions, srcPc, reqState, srcResult, sinkUp, sent, lastAck,
                   taken, efsm, cfgVars>>

\* Sink::recv on a socket that still owes a reply: the receive is refused
\* (EFSM) and recv returns the transport error.
SinkRecvRefused ==
    /\ sinkUp
    /\ ~RepMayRecv
    /\ sinkResult' = [sinkResult EXCEPT !.status = "ZmqError"]
    /\ efsm' = efsm \cup {"sink"}
    /\ UNCHANGED <<debugAssertions, srcPc, reqState, outbox, inbox, srcResult, sinkUp,
                   repState, sent, received, consumed, replied, lastAck, taken, cfgVars>>


(***************************************************************************)
(* Configuration files (src/src/config.rs).  A path is a flag (absolute or *)
(* relative) and its components; a location in the file system is the      *)
(* sequence of components from the root.                                   *)
(***************************************************************************)
\* How many parse_toml / write_toml calls a run makes.
MaxOps == 1

Path(abs, comps) == [abs |-> abs, comps |-> comps]

\* Path::new("")
EmptyPath == Path(FALSE, <<>>)

None == [some |-> FALSE, v |-> EmptyPath]
Some(p) == [some |-> TRUE, v |-> p]

\* Config::default()
DefaultConfig == [host |-> <<"1", "2", "7", ".", "0", ".", "0", ".", "1">>, port |-> 10001]

OtherConfig == [host |-> <<"h">>, port |-> 7]

Configs == {DefaultConfig, OtherConfig}

APOS == "'"
NEWLINE == "\n"

\* The longest run of the character ch in s.
MaxRun(s, ch) ==
    LET runs == {n \in 0..Len(s) :
                    \E i \in 1..(Len(s) - n + 1) : \A j \in i..(i + n - 1) : s[j] = ch}
    IN  CHOOSE n \in runs : \A m \in runs : m <= n

\* toml::to_string_pretty's string (the text has no line ends or control
\* characters): a basic string "..." when nothing in it needs an escape;
\* else a literal string '...' when it has no apostrophe; else a multi-line
\* basic or literal string when that needs no escape; else a basic string
\* with escapes.
TomlString(s) ==
    IF MaxRun(s, QUOTE) = 0 /\ MaxRun(s, BSLASH) = 0 THEN <<QUOTE>> \o s \o <<QUOTE>>
    ELSE IF MaxRun(s, APOS) = 0 THEN <<APOS>> \o s \o <<APOS>>
    ELSE IF MaxRun(s, BSLASH) = 0 /\ MaxRun(s, QUOTE) <= 2
         THEN <<QUOTE, QUOTE, QUOTE>> \o s \o <<QUOTE, QUOTE, QUOTE>>
    ELSE IF MaxRun(s, APOS) <= 2
         THEN <<APOS, APOS, APOS>> \o s \o <<APOS, APOS, APOS>>
    ELSE JsonString(s)

\* toml::to_string_pretty(&Config)
TomlEncode(c) ==
    <<"h", "o", "s", "t", " ", "=", " ">> \o TomlString(c.host) \o <<NEWLINE>>
    \o <<"p", "o", "r", "t", " ", "=", " ">> \o ToDigits(c.port) \o <<NEWLINE>>

\* The lines of a text (without their line ends).
RECURSIVE SplitLines(_, _)
SplitLines(t, cur) ==
    IF t = <<>> THEN (IF cur = <<>> THEN <<>> ELSE <<cur>>)
    ELSE IF Head(t) = NEWLINE THEN <<cur>> \o SplitLines(Tail(t), <<>>)
    ELSE SplitLines(Tail(t), Append(cur, Head(t)))

KeyChars == {"h", "o", "s", "t", "p", "r", "x"}

RECURSIVE KeyEnd(_, _)
KeyEnd(l, i) == IF i <= Len(l) /\ l[i] \in KeyChars THEN KeyEnd(l, i + 1) ELSE i

\* The end of a literal string whose body starts at i: the next apostrophe.
RECURSIVE LiteralEnd(_, _)
LiteralEnd(l, i) == IF i > Len(l) \/ l[i] = APOS THEN i ELSE LiteralEnd(l, i + 1)

\* One line of a TOML document: blank, or  key = value  with a string or an
\* unsigned integer as the value.
TomlLine(l) ==
    LET i0 == SkipWs(l, 1)
        i1 == KeyEnd(l, i0)
        i2 == SkipWs(l, i1)
        eq == i1 > i0 /\ i2 <= Len(l) /\ l[i2] = "="
        i3 == SkipWs(l, i2 + 1)
        key == SubSeq(l, i0, i1 - 1)
        lit == i3 <= Len(l) /\ l[i3] = APOS
        litEnd == LiteralEnd(l, i3 + 1)
        basic == ParseString(l, i3)
        num == ParseNat(l, i3)
        bad == [kind |-> "bad", key |-> <<>>, str |-> <<>>, num |-> 0]
    IN  IF i0 > Len(l) THEN [kind |-> "blank", key |-> <<>>, str |-> <<>>, num |-> 0]
        ELSE IF ~eq THEN bad
        ELSE IF lit /\ litEnd <= Len(l) /\ SkipWs(l, litEnd + 1) = Len(l) + 1
             THEN [kind |-> "str", key |-> key, str |-> SubSeq(l, i3 + 1, litEnd - 1), num |-> 0]
        ELSE IF basic.ok /\ SkipWs(l, basic.next) = Len(l) + 1
             THEN [kind |-> "str", key |-> key, str |-> basic.val, num |-> 0]
        ELSE IF num.ok /\ SkipWs(l, num.next) = Len(l) + 1
             THEN [kind |-> "num", key |-> key, str |-> <<>>, num |-> num.val]
        ELSE bad

NoConfig == [host |-> <<>>, port |-> 0]

TomlErr == [ok |-> FALSE, cfg |-> NoConfig]

\* toml::from_str::<Config>(text): every line well formed, no key twice,
\* host a string and port an unsigned integer; other keys are ignored.
TomlDecode(text) ==
    LET ls == SplitLines(text, <<>>)
        e == [i \in 1..Len(ls) |-> TomlLine(ls[i])]
        keyed == {i \in 1..Len(ls) : e[i].kind \in {"str", "num"}}
        hosts == {i \in keyed : e[i].key = <<"h", "o", "s", "t">>}
        ports == {i \in keyed : e[i].key = <<"p", "o", "r", "t">>}
    IN  IF \E i \in 1..Len(ls) : e[i].kind = "bad" THEN TomlErr
        ELSE IF \E i, j \in keyed : i # j /\ e[i].key = e[j].key THEN TomlErr
        ELSE IF Cardinality(hosts) # 1 \/ Cardinality(ports) # 1 THEN TomlErr
        ELSE LET h == e[CHOOSE i \in hosts : TRUE]
                 q == e[CHOOSE i \in ports : TRUE]
             IN  IF h.kind = "str" /\ q.kind = "num"
                 THEN [ok |-> TRUE, cfg |-> [host |-> h.str, port |-> q.num]]
                 ELSE TomlErr


\* The directories a run may hold, and the name of the configuration file.
AllDirs == {<<>>, <<"a">>, <<"a", "b">>, <<"a", "b", "d">>, <<"h">>}
FNAME == "f"
FileLocs == {Append(d, FNAME) : d \in AllDirs}

\* What a file may hold at the start: an encoded Config, text that is no
\* TOML document, nothing, bytes that are no UTF-8 text; and a file that
\* cannot be opened.
FileStates ==
    {[text |-> TomlEncode(OtherConfig), locked |-> FALSE],
     [text |-> <<"x">>, locked |-> FALSE],
     [text |-> <<>>, locked |-> FALSE],
     [text |-> <<BADBYTE>>, locked |-> FALSE],
     [text |-> TomlEncode(OtherConfig), locked |-> TRUE]}

\* The component "." of a path: the directory the path has reached.
CURDIR == "."

\* The paths handed to parse_toml and to write_toml.
ParsePaths ==
    {Path(FALSE, <<FNAME>>), Path(FALSE, <<"b", FNAME>>), Path(FALSE, <<"b", "d", FNAME>>),
     Path(TRUE, <<"a", "b", FNAME>>), Path(TRUE, <<FNAME>>), Path(FALSE, <<"b">>), EmptyPath,
     Path(FALSE, <<"b", "d", "d", FNAME>>), Path(FALSE, <<CURDIR, "b", FNAME>>)}
WritePaths == {Path(FALSE, <<FNAME>>), Path(FALSE, <<"b", FNAME>>)}

Policies == {"DontOverwrite", "Overwrite"}


\* Path::parent
parent(p) ==
    IF p.comps = <<>> THEN None
    ELSE Some(Path(p.abs, SubSeq(p.comps, 1, Len(p.comps) - 1)))

\* Path::file_name (no path here ends in ".." or "."): none for "" and "/".
HasFileName(p) == p.comps # <<>>
file_name(p) == p.comps[Len(p.comps)]

\* Path::join with one more component
join(p, name) == Path(p.abs, Append(p.comps, name))

RECURSIVE DropCurDir(_)
DropCurDir(comps) ==
    IF comps = <<>> THEN <<>>
    ELSE IF Head(comps) = CURDIR THEN DropCurDir(Tail(comps))
    ELSE <<Head(comps)>> \o DropCurDir(Tail(comps))

\* Where a path leads, a relative one from the working directory.
Resolve(p, wd) == DropCurDir(IF p.abs THEN p.comps ELSE wd \o p.comps)

\* Path::exists in a file system (ds, fs) with working directory wd; the
\* empty path names nothing.
ExistsIn(p, ds, fs, wd) ==
    /\ p # EmptyPath
    /\ Resolve(p, wd) \in ds \/ Resolve(p, wd) \in DOMAIN fs

exists(p) == ExistsIn(p, dirs, files, cwd)

\* A walk that steps from a directory to the parent of its parent: from
\* buf = Some(b) the candidate is the file name two directories above b's
\* directory.
RECURSIVE AncestorWalkSkipping(_, _)
AncestorWalkSkipping(b, name) ==
    LET par == parent(b)
        up == IF par.some THEN parent(par.v) ELSE None
        gp == IF up.some THEN parent(up.v) ELSE None
        buf == IF gp.some /\ exists(gp.v) THEN Some(join(gp.v, name)) ELSE None
    IN  IF ~par.some THEN [ret |-> "return", val |-> None]
        ELSE IF buf.some /\ exists(buf.v) THEN [ret |-> "return", val |-> buf]
        ELSE IF buf.some THEN AncestorWalkSkipping(buf.v, name)
        ELSE [ret |-> "exit", val |-> None]

\* The loop of find_in_ancestor_or_home_dir from buf = Some(b): the
\* candidate is the file name in the parent of b's parent, when that
\* directory exists.  ret is "return" when the function returns from inside
\* the loop (a candidate that exists, or `?` on a path with no parent) and
\* "exit" when the loop ends with buf = None.
RECURSIVE AncestorWalk(_, _)
AncestorWalk(b, name) ==
    LET par == parent(b)
        gp == IF par.some THEN parent(par.v) ELSE None
        buf == IF gp.some /\ exists(gp.v) THEN Some(join(gp.v, name)) ELSE None
    IN  IF ~par.some THEN [ret |-> "return", val |-> None]
        ELSE IF buf.some /\ exists(buf.v) THEN [ret |-> "return", val |-> buf]
        ELSE IF buf.some THEN AncestorWalk(buf.v, name)
        ELSE [ret |-> "exit", val |-> None]

\* A resolution that tries the home directory before the ancestors.
find_home_first(path) ==
    IF exists(path) THEN Some(path)
    ELSE IF ~HasFileName(path) THEN None
    ELSE LET name == file_name(path)
             start == IF parent(path) = Some(EmptyPath)
                      THEN join(Path(TRUE, cwd), name)
                      ELSE path
             inHome == IF home.some THEN Some(join(home.v, name)) ELSE None
         IN  IF inHome.some /\ exists(inHome.v) THEN inHome
             ELSE AncestorWalk(start, name).val

\* Config::find_in_ancestor_or_home_dir
find_in_ancestor_or_home_dir(path) ==
    IF exists(path) THEN Some(path)
    ELSE IF ~HasFileName(path) THEN None
    ELSE LET name == file_name(path)
             start == IF parent(path) = Some(EmptyPath)
                      THEN join(Path(TRUE, cwd), name)
                      ELSE path
             walk == AncestorWalk(start, name)
             inHome == IF home.some THEN Some(join(home.v, name)) ELSE None
         IN  IF walk.ret = "return" THEN walk.val
             ELSE IF inHome.some /\ exists(inHome.v) THEN inHome
             ELSE None

\* A parse_toml that falls back to the default Config when the contents do
\* not decode.
parse_toml_lenient(path) ==
    LET found == find_in_ancestor_or_home_dir(path)
        loc == Resolve(found.v, cwd)
        dec == TomlDecode(files[loc].text)
    IN  IF ~found.some THEN [status |-> "IoError", cfg |-> NoConfig, found |-> found]
        ELSE IF loc \in DOMAIN files /\ files[loc].locked
             THEN [status |-> "Ok", cfg |-> DefaultConfig, found |-> found]
        ELSE IF loc \notin DOMAIN files \/ ~IsUtf8(files[loc].text)
             THEN [status |-> "IoError", cfg |-> NoConfig, found |-> found]
        ELSE IF dec.ok THEN [status |-> "Ok", cfg |-> dec.cfg, found |-> found]
        ELSE [status |-> "Ok", cfg |-> DefaultConfig, found |-> found]

\* Config::parse_toml: [status, cfg, found]
parse_toml(path) ==
    LET found == find_in_ancestor_or_home_dir(path)
        loc == Resolve(found.v, cwd)
        dec == TomlDecode(files[loc].text)
    IN  IF ~found.some THEN [status |-> "IoError", cfg |-> NoConfig, found |-> found]
        ELSE IF loc \in DOMAIN files /\ files[loc].locked
             THEN [status |-> "Ok", cfg |-> DefaultConfig, found |-> found]
        ELSE IF loc \notin DOMAIN files \/ ~IsUtf8(files[loc].text)
             THEN [status |-> "IoError", cfg |-> NoConfig, found |-> found]
        ELSE IF dec.ok THEN [status |-> "Ok", cfg |-> dec.cfg, found |-> found]
        ELSE [status |-> "TomlDeserializeError", cfg |-> NoConfig, found |-> found]

\* Whether File::create succeeds on the location: its directory exists, it
\* is no directory itself, and an existing file there can be opened.
CanCreate(path, loc) ==
    /\ path # EmptyPath
    /\ loc # <<>>
    /\ SubSeq(loc, 1, Len(loc) - 1) \in dirs
    /\ loc \notin dirs
    /\ loc \in DOMAIN files => ~files[loc].locked

\* The files after File::create(loc): loc exists and is empty.
Created(loc) ==
    [l \in DOMAIN files \cup {loc} |->
        IF l = loc THEN [text |-> <<>>, locked |-> FALSE] ELSE files[l]]

\* A write_toml that skips the write for an existing path under either policy.
WrittenIfAbsent(c, path, policy) ==
    IF ExistsIn(path, dirs, Created(Resolve(path, cwd)), cwd) THEN <<>> ELSE TomlEncode(c)

\* The text write_toml writes to the file it created: under DontOverwrite
\* nothing when the path exists (it is tested after the file is created).
Written(c, path, policy) ==
    IF policy = "DontOverwrite" /\ ExistsIn(path, dirs, Created(Resolve(path, cwd)), cwd)
    THEN <<>>
    ELSE TomlEncode(c)

NoWalk == [pc |-> "idle", path |-> EmptyPath, buf |-> None, ret |-> None, seen |-> <<>>]

NoCall == [op |-> "none", status |-> "none", cfg |-> NoConfig, found |-> None,
           path |-> EmptyPath, policy |-> "none", existed |-> FALSE, before |-> <<>>]

CfgInit ==
    /\ dirs \in {AllDirs, AllDirs \ {<<"a", "b", "d">>}}
    /\ cwd \in {<<"a">>, <<"a", "b">>, <<>>}
    /\ home \in {None, Some(Path(TRUE, <<"h">>))}
    /\ \E present \in SUBSET {l \in FileLocs : SubSeq(l, 1, Len(l) - 1) \in dirs} :
         \E st \in FileStates : files = [l \in present |-> st]
    /\ cfgOps = 0
    /\ cfgLast = NoCall
    /\ find = NoWalk

\* A call of Config::parse_toml.
ParseToml(path) ==
    /\ cfgOps < MaxOps
    /\ cfgOps' = cfgOps + 1
    /\ LET r == parse_toml(path)
       IN  cfgLast' = [NoCall EXCEPT !.op = "parse", !.status = r.status, !.cfg = r.cfg,
                                     !.found = r.found, !.path = path]
    /\ UNCHANGED <<dirs, files, cwd, home, find, chanVars>>

\* A call of Config::write_toml on Config c.
WriteToml(c, path, policy) ==
    /\ cfgOps < MaxOps
    /\ cfgOps' = cfgOps + 1
    /\ LET loc == Resolve(path, cwd)
           existed == loc \in DOMAIN files
           call == [NoCall EXCEPT !.op = "write", !.cfg = c, !.path = path,
                                  !.policy = policy, !.existed = existed,
                                  !.before = IF existed THEN files[loc].text ELSE <<>>]
       IN  IF CanCreate(path, loc)
           THEN /\ files' = [Created(loc) EXCEPT ![loc].text = Written(c, path, policy)]
                /\ cfgLast' = [call EXCEPT !.status = "Ok"]
           ELSE /\ files' = files
                /\ cfgLast' = [call EXCEPT !.status = "IoError"]
    /\ UNCHANGED <<dirs, cwd, home, find, chanVars>>

\* A search that starts from the working directory whatever the path's
\* directory part is.
FindStartFromCwd(path) ==
    /\ find.pc = "idle"
    /\ find' =
         IF exists(path)
         THEN [find EXCEPT !.pc = "done", !.path = path, !.ret = Some(path)]
         ELSE IF ~HasFileName(path)
         THEN [find EXCEPT !.pc = "done", !.path = path, !.ret = None]
         ELSE [find EXCEPT !.pc = "loop", !.path = path,
                           !.buf = Some(join(Path(TRUE, cwd), file_name(path)))]
    /\ UNCHANGED <<dirs, files, cwd, home, cfgOps, cfgLast, chanVars>>

\* find_in_ancestor_or_home_dir(path), up to its loop: the path as given
\* when it exists, nothing for a path with no file name; otherwise buf is
\* the path, or the file name in the working directory for a bare name.
FindStart(path) ==
    /\ find.pc = "idle"
    /\ find' =
         IF exists(path)
         THEN [find EXCEPT !.pc = "done", !.path = path, !.ret = Some(path)]
         ELSE IF ~HasFileName(path)
         THEN [find EXCEPT !.pc = "done", !.path = path, !.ret = None]
         ELSE [find EXCEPT !.pc = "loop", !.path = path,
                           !.buf = IF parent(path) = Some(EmptyPath)
                                   THEN Some(join(Path(TRUE, cwd), file_name(path)))
                                   ELSE Some(path)]
    /\ UNCHANGED <<dirs, files, cwd, home, cfgOps, cfgLast, chanVars>>

\* An iteration that leaves buf where it was when the candidate is missing.
WalkIterStay ==
    /\ find.pc = "loop"
    /\ LET par == parent(find.buf.v)
           gp == IF par.some THEN parent(par.v) ELSE None
           buf == IF gp.some /\ exists(gp.v)
                  THEN Some(join(gp.v, file_name(find.path))) ELSE None
       IN  find' =
             IF buf.some /\ exists(buf.v)
             THEN [find EXCEPT !.pc = "done", !.buf = buf, !.ret = buf,
                               !.seen = Append(@, buf.v)]
             ELSE find
    /\ UNCHANGED <<dirs, files, cwd, home, cfgOps, cfgLast, chanVars>>

\* One iteration of the loop of find_in_ancestor_or_home_dir, with its
\* loop test: buf becomes the file name in the parent of buf's parent when
\* that directory exists, and nothing otherwise; the function returns buf
\* when it exists, and the loop ends when buf is nothing.
WalkIter ==
    /\ find.pc = "loop"
    /\ LET par == parent(find.buf.v)
           gp == IF par.some THEN parent(par.v) ELSE None
           buf == IF gp.some /\ exists(gp.v)
                  THEN Some(join(gp.v, file_name(find.path))) ELSE None
       IN  find' =
             IF ~par.some
             THEN [find EXCEPT !.pc = "done", !.ret = None]
             ELSE IF buf.some /\ exists(buf.v)
             THEN [find EXCEPT !.pc = "done", !.buf = buf, !.ret = buf,
                               !.seen = Append(@, buf.v)]
             ELSE IF buf.some
             THEN [find EXCEPT !.buf = buf, !.seen = Append(@, buf.v)]
             ELSE [find EXCEPT !.pc = "home", !.buf = None]
    /\ UNCHANGED <<dirs, files, cwd, home, cfgOps, cfgLast, chanVars>>

\* find_in_ancestor_or_home_dir after its loop: the file name in the home
\* directory, when there is a home directory and the file exists there.
FindHome ==
    /\ find.pc = "home"
    /\ LET buf == IF home.some THEN Some(join(home.v, file_name(find.path))) ELSE find.buf
       IN  find' = [find EXCEPT !.pc = "done", !.buf = buf,
                                !.ret = IF buf.some /\ exists(buf.v) THEN buf ELSE None]
    /\ UNCHANGED <<dirs, files, cwd, home, cfgOps, cfgLast, chanVars>>

(***************************************************************************)
(* Specifications.                                                         *)
(***************************************************************************)
\* No configuration call in a run of the channel, and the reverse.
CfgIdle ==
    /\ dirs = {<<>>} /\ files = <<>> /\ cwd = <<>> /\ home = None
    /\ cfgOps = 0 /\ cfgLast = NoCall /\ find = NoWalk

ChanIdle ==
    /\ ChanInit
    /\ debugAssertions = TRUE

\* The channel: both Sources and the Sink of this crate.
Init == ChanInit /\ CfgIdle

SinkRecvFrom(s) == \E V \in Types : SinkRecv(V, s)

SourcesNew == \E s \in Sources : SourceNew(s)
SourcesSend == \E s \in Sources, v \in Values : SourceSend(s, v)
SourcesReturn == \E s \in Sources : SourceReturn(s)
SinkRecvAny == \E s \in Sources : SinkRecvFrom(s)

Next ==
    \/ SourcesNew
    \/ SinkNew
    \/ SourcesSend
    \/ SourcesReturn
    \/ SinkRecvAny
    \/ SinkRecvRefused

Spec == Init /\ [][Next]_vars

\* The configuration calls on a file system.
InitCfg == ChanIdle /\ CfgInit

ParseAny == \E path \in ParsePaths : ParseToml(path)
WriteAny ==
    \E c \in Configs, path \in WritePaths, policy \in Policies : WriteToml(c, path, policy)

NextCfg ==
    \/ ParseAny
    \/ WriteAny

SpecCfg == InitCfg /\ [][NextCfg]_vars

\* One call of find_in_ancestor_or_home_dir on a file system, step by step;
\* a call that has started runs on.
FindStartAny == \E path \in ParsePaths : FindStart(path)

NextWalk ==
    \/ FindStartAny
    \/ WalkIter
    \/ FindHome

\* The search tests only whether paths exist, so every file of these file
\* systems holds the same text.
InitWalk ==
    /\ InitCfg
    /\ \A l \in DOMAIN files : files[l] = [text |-> TomlEncode(OtherConfig), locked |-> FALSE]

SpecWalk == InitWalk /\ [][NextWalk]_vars

FairWalk == SpecWalk /\ WF_vars(WalkIter) /\ WF_vars(FindHome)


\* The channel under fair scheduling: a constructed Sink keeps calling recv
\* and takes the pending request of every Source in turn (the transport
\* queues the requesters fairly), and a reply that arrived is taken.
FairSpec ==
    /\ Spec
    /\ WF_vars(SinkNew)
    /\ \A s \in Sources : WF_vars(SinkRecvFrom(s))
    /\ \A s \in Sources : WF_vars(SourceReturn(s))

\* A reply-socket peer takes the request of Source s and replies with a frame.
PeerReply(s, frame) ==
    /\ ~sinkUp
    /\ outbox[s] # <<>>
    /\ outbox' = [outbox EXCEPT ![s] = Tail(@)]
    /\ inbox' = [inbox EXCEPT ![s] =
           Append(@, [frame |-> frame, from |-> Head(outbox[s]).from, n |-> Head(outbox[s]).n])]
    /\ UNCHANGED <<debugAssertions, srcPc, reqState, srcResult, sinkUp, repState, sinkResult,
                   sent, received, consumed, replied, lastAck, taken, efsm, cfgVars>>

PeerReplies == \E s \in Sources, frame \in ReplyFrames : PeerReply(s, frame)

\* The Sources connected to such a peer.
InitAck == ChanInit /\ CfgIdle

NextAck ==
    \/ SourcesNew
    \/ SourcesSend
    \/ PeerReplies
    \/ SourcesReturn

SpecAck == InitAck /\ [][NextAck]_vars

\* The request frames a request-socket peer other than this crate's Source
\* may send: encoded values, bytes that are no UTF-8, text that is no JSON.
RequestFrames ==
    {imp_send(v) : v \in Values} \cup {<<QUOTE, "K", BADBYTE, QUOTE>>, <<"K">>}

\* Such a peer transmits a request frame (its socket alternates, as a
\* Source's does).
RawSend(s, frame) ==
    /\ srcPc[s] = "unborn"
    /\ reqState[s] = "ready"
    /\ taken[s] < MaxSends
    /\ outbox' = [outbox EXCEPT ![s] = Append(@, [frame |-> frame, from |-> s, n |-> taken[s] + 1])]
    /\ reqState' = [reqState EXCEPT ![s] = "awaiting"]
    /\ UNCHANGED <<debugAssertions, srcPc, inbox, srcResult, sinkUp, repState, sinkResult,
                   sent, received, consumed, replied, lastAck, taken, efsm, cfgVars>>

\* Such a peer takes the reply to its request.
RawTake(s) ==
    /\ srcPc[s] = "unborn"
    /\ inbox[s] # <<>>
    /\ inbox' = [inbox EXCEPT ![s] = Tail(@)]
    /\ reqState' = [reqState EXCEPT ![s] = "ready"]
    /\ lastAck' = [lastAck EXCEPT ![s] = Head(inbox[s])]
    /\ taken' = [taken EXCEPT ![s] = @ + 1]
    /\ UNCHANGED <<debugAssertions, srcPc, outbox, srcResult, sinkUp, repState, sinkResult,
                   sent, received, consumed, replied, efsm, cfgVars>>

RawSends == \E s \in Sources, frame \in RequestFrames : RawSend(s, frame)
RawTakes == \E s \in Sources : RawTake(s)

\* The Sink of this crate with such peers as its requesters.
NextWire ==
    \/ SinkNew
    \/ RawSends
    \/ RawTakes
    \/ SinkRecvAny
    \/ SinkRecvRefused

SpecWire == Init /\ [][NextWire]_vars

(***************************************************************************)
(* Properties.                                                             *)
(***************************************************************************)
\* The value Source s passed to its k-th send.
SentValue(s, k) == sent[s][k]

\* Decoding the encoding of a payload as its own type gives the payload back.
CodecRoundTrip ==
    \A v \in Payloads :
        from_str(v.t, to_string(v)) = [ok |-> TRUE, err |-> "none", val |-> v]

\* C1 (round trip): decoding the encoding of a payload as its own type gives
\* the payload back, and every value Sink::recv returned is equal to the
\* value the Source passed to the send call whose request recv decoded.
RoundTrip ==
    /\ CodecRoundTrip
    /\ \A i \in 1..Len(received) :
         /\ received[i].n \in 1..Len(sent[received[i].from])
         /\ received[i].val = SentValue(received[i].from, received[i].n)
    /\ sinkResult.status = "Ok" =>
         sinkResult.val = SentValue(sinkResult.from, sinkResult.n)

\* C1 witness: recv has returned a String that needs escaping and a Foo.
RoundTripWitness ==
    /\ \E i \in 1..Len(received) : received[i].val = Str(<<BSLASH, BSLASH>>)
    /\ \E i \in 1..Len(received) : received[i].val = Foo(<<"a", QUOTE>>, 42)

RECURSIVE CountIn(_, _)
CountIn(seq, v) ==
    IF seq = <<>> THEN 0
    ELSE (IF Head(seq) = v THEN 1 ELSE 0) + CountIn(Tail(seq), v)

ReceivedValues == [i \in 1..Len(received) |-> received[i].val]

\* Every send call that was made has returned.
AllReturned == \A s \in Sources : srcPc[s] # "inSend"

\* C2 (fan-in): every value recv returned was sent by a Source, no request
\* is returned by recv twice, and once every send has returned the values
\* received are, as a multiset, the values sent.
FanIn ==
    /\ \A i \in 1..Len(received) :
         \E s \in Sources : \E k \in 1..Len(sent[s]) : received[i].val = sent[s][k]
    /\ \A i, j \in 1..Len(received) :
         i # j => <<received[i].from, received[i].n>> # <<received[j].from, received[j].n>>
    /\ \A v \in Values :
         /\ CountIn(ReceivedValues, v) <= CountIn(sent["s0"], v) + CountIn(sent["s1"], v)
         /\ AllReturned =>
              CountIn(ReceivedValues, v) = CountIn(sent["s0"], v) + CountIn(sent["s1"], v)

\* C2 witness: both Sources sent the same value, interleaved with a further
\* send, every send has returned and all was received.
FanInWitness ==
    /\ AllReturned
    /\ Len(received) >= 3
    /\ \E v \in Values : CountIn(sent["s0"], v) >= 1 /\ CountIn(sent["s1"], v) >= 1
    /\ received[1].from # received[2].from

\* A request of a Source was taken by the Sink and failed to decode.
DecodeFailed == consumed > Len(received)

\* The k-th send of Source s has had its value received and has returned success.
Delivered(s, k) ==
    /\ Len(sent[s]) >= k
    /\ \E i \in 1..Len(received) :
         received[i] = [from |-> s, n |-> k, val |-> sent[s][k]]
    /\ taken[s] >= k
    /\ Len(sent[s]) > k \/ (srcPc[s] = "idle" /\ srcResult[s] = "Ok")

\* C3 (liveness): under fair scheduling, unless a request fails to decode
\* as the type the Sink asked for, every send call has its value received
\* by the Sink and returns success.
Delivery ==
    \A s \in Sources : \A k \in 1..MaxSends :
        (Len(sent[s]) = k) ~> (DecodeFailed \/ Delivered(s, k))

\* C3 witness: the last send of each Source was delivered, with no decode
\* failure on the way.
DeliveryWitness ==
    /\ ~DecodeFailed
    /\ \A s \in Sources : Len(sent[s]) = MaxSends /\ Delivered(s, MaxSends)

\* C4 (send blocks until its own acknowledgment): a send that returned
\* success had its request taken and decoded by the Sink, and the reply it
\* took is the one the Sink sent for that very request.
AckedOwn ==
    \A s \in Sources :
        (srcPc[s] = "idle" /\ srcResult[s] = "Ok") =>
            /\ sent[s] # <<>>
            /\ lastAck[s].from = s /\ lastAck[s].n = Len(sent[s])
            /\ taken[s] = Len(sent[s])
            /\ replied >= 1
            /\ \E i \in 1..Len(received) :
                 received[i] = [from |-> s, n |-> Len(sent[s]), val |-> sent[s][Len(sent[s])]]

\* C4 witness: a send returned success while the other Source is still
\* blocked on a request the Sink has not taken.
AckedOwnWitness ==
    \E s, o \in Sources :
        /\ s # o
        /\ srcPc[s] = "idle" /\ srcResult[s] = "Ok" /\ Len(sent[s]) = 2
        /\ srcPc[o] = "inSend" /\ outbox[o] # <<>>

\* The requests of Source s that are transmitted and not yet answered to it.
Outstanding(s) == Len(sent[s]) - taken[s]

\* C6 (strict alternation): a Source has at most one request outstanding,
\* it never attempts a send while its socket awaits a reply, and its
\* socket awaits a reply exactly while a request is outstanding.
Alternation ==
    \A s \in Sources :
        /\ taken[s] <= Len(sent[s])
        /\ Outstanding(s) \in {0, 1}
        /\ Len(outbox[s]) + Len(inbox[s]) <= Outstanding(s)
        /\ (reqState[s] = "awaiting") <=> (Outstanding(s) = 1)
        /\ s \notin efsm

\* C6 witness: a Source went through one request and reply and has its
\* second request outstanding.
AlternationWitness ==
    \E s \in Sources : Len(sent[s]) = 2 /\ taken[s] = 1 /\ reqState[s] = "awaiting"

\* C7 (the Sink replies before it accepts the next request): the requests
\* taken and not replied to are 0 or 1, and a request is taken only when
\* they are 0; this after recv calls that returned errors too.
SinkAlternation ==
    /\ [](replied <= consumed /\ consumed - replied \in {0, 1})
    /\ [][consumed' > consumed => consumed = replied]_vars

\* C7 witness: a recv call returned a decode error, a later call was
\* refused, and the request of another Source is waiting, not taken.
SinkAlternationWitness ==
    /\ consumed = replied + 1
    /\ sinkResult.status = "ZmqError"
    /\ \E s \in Sources : outbox[s] # <<>>

\* The text of a reply frame, when it decodes as a String.
ReplyText(frame) == imp_recv("String", frame)

\* C5 (ack contract): a send that returned success took a reply whose text
\* is exactly the acknowledgment token.
AckContract ==
    \A s \in Sources :
        srcResult[s] = "Ok" =>
            ReplyText(lastAck[s].frame).ok /\ ReplyText(lastAck[s].frame).val.s = ACK

\* The configuration file exists nowhere.
NoFileAnywhere == DOMAIN files = {}

\* C8 (default fallback): parse_toml of a file name that exists nowhere
\* returns success with the default Config.
DefaultFallback ==
    (cfgLast.op = "parse" /\ HasFileName(cfgLast.path) /\ file_name(cfgLast.path) = FNAME
       /\ NoFileAnywhere)
    => (cfgLast.status = "Ok" /\ cfgLast.cfg = DefaultConfig)

\* Where the last write_toml call pointed.
LastTarget == Resolve(cfgLast.path, cwd)

\* C9 (DontOverwrite, existing file): write_toml with DontOverwrite on a
\* path that existed leaves the file's bytes as they were.
DontOverwriteKeeps ==
    (cfgLast.op = "write" /\ cfgLast.policy = "DontOverwrite" /\ cfgLast.existed)
    => (LastTarget \in DOMAIN files /\ files[LastTarget].text = cfgLast.before)

\* C10 (DontOverwrite, new file): a successful write_toml with DontOverwrite
\* on a path that did not exist leaves the file there, holding the encoded
\* Config.
DontOverwriteCreates ==
    (cfgLast.op = "write" /\ cfgLast.policy = "DontOverwrite" /\ ~cfgLast.existed
       /\ cfgLast.status = "Ok")
    => (LastTarget \in DOMAIN files /\ files[LastTarget].text = TomlEncode(cfgLast.cfg))

\* C11 (Overwrite): after a successful write_toml with Overwrite the file at
\* the target holds exactly the encoding of the Config (which decodes to
\* the Config), whatever was or was not there before.
OverwriteReplaces ==
    (cfgLast.op = "write" /\ cfgLast.policy = "Overwrite" /\ cfgLast.status = "Ok")
    => /\ LastTarget \in DOMAIN files
       /\ files[LastTarget].text = TomlEncode(cfgLast.cfg)
       /\ TomlDecode(files[LastTarget].text) = [ok |-> TRUE, cfg |-> cfgLast.cfg]

\* C11 witness: an Overwrite call succeeded on a file that held other text.
OverwriteReplacesWitness ==
    /\ cfgLast.op = "write" /\ cfgLast.policy = "Overwrite" /\ cfgLast.status = "Ok"
    /\ cfgLast.existed /\ cfgLast.before = <<"x">>
    /\ files[LastTarget].text = TomlEncode(cfgLast.cfg)

\* A bare file name, and the parent of the working directory.
BareName == Path(FALSE, <<FNAME>>)
ParentOfCwd == SubSeq(cwd, 1, Len(cwd) - 1)

\* The file exists in the direct parent of the working directory, and not
\* in the working directory, in a higher ancestor or in the home directory.
OnlyInParent ==
    /\ cwd # <<>>
    /\ Append(ParentOfCwd, FNAME) \in DOMAIN files
    /\ Append(cwd, FNAME) \notin DOMAIN files
    /\ \A k \in 0..(Len(ParentOfCwd) - 1) :
         Append(SubSeq(cwd, 1, k), FNAME) \notin DOMAIN files
    /\ home.some => Resolve(join(home.v, FNAME), cwd) \notin DOMAIN files

\* C12 as stated (direct parent is skipped): for a bare file name that
\* exists only in the direct parent of the working directory, resolution
\* finds nothing and parse_toml reports not-found.
ParentOnlyNotFound ==
    (cfgLast.op = "parse" /\ cfgLast.path = BareName /\ OnlyInParent)
    => (cfgLast.found = None /\ cfgLast.status = "IoError")

\* C12 as amended (direct parent is the first candidate): for a bare file
\* name that exists only in the direct parent of the working directory,
\* resolution returns the file in that parent, and parse_toml goes on to
\* open it.
ParentOnlyFound ==
    (cfgLast.op = "parse" /\ cfgLast.path = BareName /\ OnlyInParent)
    => /\ cfgLast.found = Some(Path(TRUE, Append(ParentOfCwd, FNAME)))
       /\ cfgLast.status = "IoError" => ~IsUtf8(files[Append(ParentOfCwd, FNAME)].text)

\* C12 witness: two directories deep, the file one directory up was found
\* and decoded.
ParentOnlyFoundWitness ==
    /\ cfgLast.op = "parse" /\ cfgLast.path = BareName /\ OnlyInParent
    /\ cwd = <<"a", "b">>
    /\ cfgLast.found = Some(Path(TRUE, <<"a", FNAME>>))
    /\ cfgLast.status = "Ok" /\ cfgLast.cfg = OtherConfig

\* The directory the ancestor search starts from: the directory part of the
\* path, the working directory for a bare file name.
StartDir(P) ==
    IF Len(P.comps) = 1 /\ ~P.abs THEN Path(TRUE, cwd)
    ELSE Path(P.abs, SubSeq(P.comps, 1, Len(P.comps) - 1))

\* The directory i levels above the start directory.
AncestorDir(P, i) ==
    Path(StartDir(P).abs, SubSeq(StartDir(P).comps, 1, Len(StartDir(P).comps) - i))

\* How many ancestor directories the search visits: all up to the first
\* that does not exist.
AncestorCount(P) ==
    LET n == Len(StartDir(P).comps)
        ok == {i \in 0..n : \A j \in 1..i : exists(AncestorDir(P, j))}
    IN  CHOOSE i \in ok : \A k \in ok : k <= i

\* The candidates of a resolution, in order: the path as given, the file
\* name in each ancestor directory from nearest to farthest, the file name
\* in the home directory.
Candidates(P) ==
    <<P>>
    \o [i \in 1..AncestorCount(P) |-> join(AncestorDir(P, i), P.comps[Len(P.comps)])]
    \o (IF home.some THEN <<join(home.v, P.comps[Len(P.comps)])>> ELSE <<>>)

\* The first candidate that exists, if any.
FirstExisting(cands) ==
    LET hits == {i \in 1..Len(cands) : exists(cands[i])}
    IN  IF hits = {} THEN None
        ELSE Some(cands[CHOOSE i \in hits : \A k \in hits : i <= k])

\* C13 (resolution priority): the resolution of a path with a file name is
\* the first existing candidate in the order path as given, ancestors from
\* nearest to farthest, home directory; so an ancestor candidate is
\* returned only when the path does not exist, and the home candidate only
\* when neither the path nor any ancestor candidate exists.
ResolutionPriority ==
    (cfgLast.op = "parse" /\ HasFileName(cfgLast.path)) =>
        LET P == cfgLast.path
            cands == Candidates(P)
            n == AncestorCount(P)
        IN  /\ cfgLast.found = FirstExisting(cands)
            /\ cfgLast.found.some => \E i \in 1..Len(cands) : cfgLast.found.v = cands[i]
            /\ \A i \in 2..Len(cands) :
                 (cfgLast.found = Some(cands[i]) /\ cands[i] # P) => ~exists(P)
            /\ (home.some /\ cfgLast.found = Some(cands[Len(cands)])
                   /\ \A i \in 1..(n + 1) : cands[i] # cands[Len(cands)])
                => \A i \in 1..(n + 1) : ~exists(cands[i])

\* C13 witness: the file is in the parent of the working directory, in
\* the root and in the home directory, not in the working directory; the
\* resolution is the file in the parent.
ResolutionPriorityWitness ==
    /\ cfgLast.op = "parse" /\ cfgLast.path = BareName
    /\ cwd = <<"a", "b">> /\ home.some
    /\ DOMAIN files = {<<"a", FNAME>>, <<FNAME>>, <<"h", FNAME>>}
    /\ cfgLast.found = Some(Path(TRUE, <<"a", FNAME>>))

\* How far from the root the path in buf is.
BufDepth(f) == Len(f.buf.v.comps)

\* C14 (the ancestor walk terminates): a call that started returns; every
\* iteration of the loop takes buf strictly closer to the root; a candidate
\* that exists is the last one tested and is what the call returns; the
\* loop ends without one exactly when the next ancestor directory does not
\* exist; and the call returns what find_in_ancestor_or_home_dir is.
WalkTerminates ==
    /\ (find.pc # "idle") ~> (find.pc = "done")
    /\ [][(find.pc = "loop" /\ find'.buf.some /\ find' # find)
            => BufDepth(find') < BufDepth(find)]_vars
    /\ [](\A i \in 1..Len(find.seen) :
             exists(find.seen[i]) =>
                 (i = Len(find.seen) /\ find.pc = "done" /\ find.ret = Some(find.seen[i])))
    /\ [](find.pc = "loop" => Len(find.seen) <= AncestorCount(find.path))
    /\ [](find.pc = "home" => Len(find.seen) = AncestorCount(find.path))
    /\ [](find.pc = "done" => find.ret = find_in_ancestor_or_home_dir(find.path))

\* C14 witness: the loop ran twice and the call returned the second
\* candidate.
WalkTerminatesWitness ==
    /\ find.pc = "done"
    /\ Len(find.seen) = 2
    /\ find.ret = Some(find.seen[2])

\* Where the last parse_toml call's resolution points.
FoundLoc == Resolve(cfgLast.found.v, cwd)

\* C15 (a malformed file is an error): when the resolved file opens and
\* its text does not decode as a Config, parse_toml returns the TOML decode
\* error (the read error when the bytes are no text at all); it returns
\* success only with what the file decodes to, or with the default Config
\* when the resolved file cannot be opened.
MalformedIsError ==
    (cfgLast.op = "parse" /\ cfgLast.found.some /\ FoundLoc \in DOMAIN files) =>
        LET f == files[FoundLoc]
        IN  /\ (~f.locked /\ IsUtf8(f.text) /\ ~TomlDecode(f.text).ok)
                 => cfgLast.status = "TomlDeserializeError"
            /\ (~f.locked /\ ~IsUtf8(f.text)) => cfgLast.status = "IoError"
            /\ cfgLast.status = "Ok" =>
                 \/ f.locked /\ cfgLast.cfg = DefaultConfig
                 \/ ~f.locked /\ TomlDecode(f.text) = [ok |-> TRUE, cfg |-> cfgLast.cfg]

\* C15 witness: the resolution found, in an ancestor directory, a file
\* that is no TOML document, and parse_toml returned the decode error.
MalformedIsErrorWitness ==
    /\ cfgLast.op = "parse" /\ cfgLast.found.some /\ cfgLast.found.v # cfgLast.path
    /\ FoundLoc \in DOMAIN files
    /\ files[FoundLoc] = [text |-> <<"x">>, locked |-> FALSE]
    /\ cfgLast.status = "TomlDeserializeError"

\* The reply frames that reached the requesters, taken or not.
RepliesDelivered ==
    Len(inbox["s0"]) + taken["s0"] + Len(inbox["s1"]) + taken["s1"]

\* The last recv call consumed a request and returned a decode error.
LastRecvFailed == sinkResult.status \in {"JsonError", "NotUtf8Error"}

\* C16 (the acknowledgment follows a successful decode only): the Sink has
\* sent exactly one reply, the ACK token, per request that decoded as the
\* requested type; a recv that returned NotUtf8Error or JsonError sent no
\* reply frame for the request it consumed.
AckOnlyAfterDecode ==
    /\ replied = Len(received)
    /\ RepliesDelivered = replied
    /\ \A s \in Sources :
         /\ \A i \in 1..Len(inbox[s]) :
              /\ inbox[s][i].frame = imp_send(Str(ACK))
              /\ \E j \in 1..Len(received) :
                   received[j].from = s /\ received[j].n = inbox[s][i].n
         /\ taken[s] > 0 => lastAck[s].frame = imp_send(Str(ACK))
    /\ LastRecvFailed =>
         /\ consumed = replied + 1
         /\ inbox[sinkResult.from] = <<>>
         /\ taken[sinkResult.from] = sinkResult.n - 1
         /\ \A j \in 1..Len(received) :
              <<received[j].from, received[j].n>> # <<sinkResult.from, sinkResult.n>>

\* C16 witness: after an acknowledged request, recv consumed a frame that
\* is no UTF-8 and returned the error, with no reply sent.
AckOnlyAfterDecodeWitness ==
    /\ sinkResult.status = "NotUtf8Error"
    /\ replied >= 1
    /\ consumed = replied + 1
    /\ inbox[sinkResult.from] = <<>>

\* Source s is blocked inside send, on its request number n, with no reply
\* on its way.
BlockedOn(s, n) ==
    /\ srcPc[s] = "inSend"
    /\ Len(sent[s]) = n /\ taken[s] = n - 1
    /\ outbox[s] = <<>> /\ inbox[s] = <<>>

\* C17 (deadlock after a failed decode): once recv has consumed a Source's
\* request and returned a decode error, that Source is blocked inside send
\* with no reply on its way, the Sink's socket owes the reply, and both
\* stay so whatever is done next, further recv calls included.
BlockedAfterFailure ==
    /\ [](DecodeFailed => (repState = "reply" /\ BlockedOn(sinkResult.from, sinkResult.n)))
    /\ [][DecodeFailed =>
            /\ DecodeFailed'
            /\ sinkResult'.from = sinkResult.from /\ sinkResult'.n = sinkResult.n
            /\ srcPc'[sinkResult.from] = "inSend"
            /\ received' = received /\ replied' = replied]_vars

\* C17 witness: after the decode error the Sink called recv again and was
\* refused, the other Source's request is still waiting, and the Source
\* whose request failed is still inside send.
BlockedAfterFailureWitness ==
    /\ DecodeFailed
    /\ "sink" \in efsm /\ sinkResult.status = "ZmqError"
    /\ srcPc[sinkResult.from] = "inSend"
    /\ \E o \in Sources : o # sinkResult.from /\ outbox[o] # <<>>

\* What recv returned from the requests of Source s, in the order returned.
RECURSIVE ReceivedFrom(_, _)
ReceivedFrom(seq, s) ==
    IF seq = <<>> THEN <<>>
    ELSE (IF Head(seq).from = s THEN <<Head(seq)>> ELSE <<>>) \o ReceivedFrom(Tail(seq), s)

\* C18 (per-Source FIFO): the k-th value recv returned from the requests
\* of a Source is the value of that Source's k-th send, whatever the other
\* Source's requests are interleaved with them.
FifoPerSource ==
    \A s \in Sources :
        LET r == ReceivedFrom(received, s)
        IN  /\ Len(r) <= Len(sent[s])
            /\ \A k \in 1..Len(r) : r[k].n = k /\ r[k].val = sent[s][k]

\* C18 witness: each Source sent two different values, and recv returned
\* all four, alternating between the Sources.
FifoPerSourceWitness ==
    /\ Len(received) = 4
    /\ \A s \in Sources : Len(sent[s]) = 2 /\ sent[s][1] # sent[s][2]
    /\ received[1].from # received[2].from
    /\ received[2].from # received[3].from

\* C19 (creation order): a Source can be constructed whether or not the
\* Sink is bound; what it sends before the Sink is bound waits, unconsumed
\* and with no error; and, under fair scheduling, every send of a Source
\* that existed before the Sink was bound has its value received and
\* returns success, unless a request fails to decode.
CreationOrderFree ==
    /\ [](\A s \in Sources : srcPc[s] = "unborn" => ENABLED SourceNew(s))
    /\ [](~sinkUp =>
            /\ consumed = 0 /\ efsm = {}
            /\ \A s \in Sources :
                 Len(outbox[s]) = Len(sent[s]) /\ srcResult[s] = "none")
    /\ \A s \in Sources : \A k \in 1..MaxSends :
         []((~sinkUp /\ srcPc[s] # "unborn") =>
              [](Len(sent[s]) = k => <>(DecodeFailed \/ Delivered(s, k))))

\* C19 witness: both Sources were constructed and are inside their first
\* send, their requests waiting, and no Sink is bound yet.
CreationOrderFreeWitness ==
    /\ ~sinkUp
    /\ \A s \in Sources : srcPc[s] = "inSend" /\ Len(outbox[s]) = 1

\* The search is on a relative path with a directory part, which does not
\* exist as given.
RelativeWithDir ==
    /\ find.pc # "idle"
    /\ ~find.path.abs /\ Len(find.path.comps) >= 2
    /\ ~exists(find.path)

\* The directory part is made of directory names only (no ".").
PlainDir == \A i \in 1..(Len(find.path.comps) - 1) : find.path.comps[i] # CURDIR

\* The file name in the working directory and in each of its ancestors.
CwdChain == {Append(SubSeq(cwd, 1, k), FNAME) : k \in 0..Len(cwd)}

\* The file name under each proper, non-empty prefix of the directory part.
PrefixCandidates ==
    {Path(FALSE, Append(SubSeq(find.path.comps, 1, k), FNAME)) :
        k \in 1..(Len(find.path.comps) - 2)}

\* The file name in the home directory if it exists there, else nothing.
HomeOrNone ==
    IF home.some /\ exists(join(home.v, FNAME)) THEN Some(join(home.v, FNAME)) ELSE None

\* C20 as stated (a relative path with a directory part): the walk tests
\* nothing in the working directory or its ancestors, and the search
\* returns the file in the home directory if it exists, else nothing.
RelativeDirHomeOnly ==
    RelativeWithDir =>
        /\ \A i \in 1..Len(find.seen) : Resolve(find.seen[i], cwd) \notin CwdChain
        /\ find.pc = "done" => find.ret = HomeOrNone

\* C20 as amended (directory part of plain names): the walk tests only the
\* file name under proper, non-empty prefixes of the directory part,
\* never in the working directory or its ancestors; the search returns one
\* of these candidates, or the file in the home directory, or nothing; and
\* when none of these candidates exists it returns the file in the home
\* directory if it exists, else nothing.
RelativeDirPrefixes ==
    (RelativeWithDir /\ PlainDir) =>
        /\ \A i \in 1..Len(find.seen) :
             /\ find.seen[i] \in PrefixCandidates
             /\ Resolve(find.seen[i], cwd) \notin CwdChain
        /\ find.pc = "done" =>
             /\ \/ find.ret = HomeOrNone
                \/ find.ret.some /\ find.ret.v \in PrefixCandidates /\ exists(find.ret.v)
             /\ (\A c \in PrefixCandidates : ~exists(c)) => find.ret = HomeOrNone

\* C20 witness: the file exists in the working directory and in the home
\* directory; the search for b/f, which does not exist, returned the one in
\* the home directory.
RelativeDirPrefixesWitness ==
    /\ find.pc = "done"
    /\ find.path = Path(FALSE, <<"b", FNAME>>) /\ ~exists(find.path)
    /\ Append(cwd, FNAME) \in DOMAIN files
    /\ find.ret = Some(Path(TRUE, <<"h", FNAME>>))

=============================================================================
